---- MODULE Spec2Model ----
(***************************************************************************)
(* Model of the Nano Banana product-marketing apps.                        *)
(*                                                                         *)
(*   SpecCrop       aspect_crop applied once and then again to its result  *)
(*   SpecCropBoth   the same for app.py's and utils.py's aspect_crop side  *)
(*                  by side                                                *)
(*   SpecComposite  composite_product_on_plate applied to one plate and    *)
(*                  cutout under two vertical biases                       *)
(*   Spec           one session of app.py: upload, styles, Generate all,   *)
(*                  the Edit tab with its background edits, the Export tab *)
(*   SpecUI         one session of ui_components.py's Generate All         *)
(*   SpecChat       the chat page of that session: Save, select, Send,     *)
(*                  clear_cache, init_session_state                        *)
(*   SpecOverlay    one call of draw_overlay_text, line by line            *)
(*   SpecTransforms the transforms called on image objects: what each      *)
(*                  creates, writes in place and returns                   *)
(*                                                                         *)
(* Images are modelled by their geometry: width, height and the offset of  *)
(* their top-left pixel inside the image they were cut from.  Python's     *)
(* float arithmetic is modelled by exact rational arithmetic on integers,  *)
(* corrected where the double result falls short of the exact one: the     *)
(* operands up to 25 on which int(n*(a/b)) or int(n/(a/b)) is one below    *)
(* the exact floor are tabulated (FloatMulShort, FloatDivShort).           *)
(***************************************************************************)
EXTENDS Integers, Sequences, FiniteSets, TLC

\* ------------------------------------------------------------------ bounds
MaxDim == 20        \* largest source width/height given to aspect_crop
MaxRatio == 3       \* ratio components 0..MaxRatio besides the app's ratios
MaxPlate == 8       \* largest plate width/height given to the compositor
MaxCut == 4         \* largest cutout width/height given to the compositor
MaxAssets == 2      \* most assets in the styles JSON / selected for generation
MaxCalls == 3       \* images the generation service returns before it only fails
PlateDim == 4       \* width and height of the plates the service returns
MaxObjs == 3        \* most image objects held at once
MaxStr == 4         \* longest quote given to draw_overlay_text

VARIABLES
    cropSrc,        \* the image given to aspect_crop
    cropRatio,      \* the target_ratio argument <<rw, rh>>
    cropOut,        \* results so far: first crop, then the crop of its result
    utilsOut,       \* what utils.py's aspect_crop returned for the same calls
    compPlate,      \* the plate given to composite_product_on_plate
    compCutout,     \* the cutout given to it
    compScale,      \* scale, in hundredths
    compOut,        \* <<y_bias in hundredths, result>> of each call so far
    \* --- app.py: one browser session of the Product-Lock app
    uploaded,       \* the file_uploader's product image, or None
    assets,         \* the assets of the styles JSON (their assetType)
    results,        \* st.session_state["results"]: the per-slot store
    pc,             \* position of the script run ("idle": waiting for the user)
    click,          \* the interaction that started the run
    editIdx,        \* the slot whose "Apply background edit" was pressed
    idx,            \* loop index of the Generate-all loop / the Edit tab loop
    newPlate,       \* the edit handler's local new_plate
    newComp,        \* the edit handler's local new_comp
    calls,          \* images the generation service has returned so far
    exported,       \* the images the Export tab offers for download
    aborted,        \* the run ended with an uncaught exception
    lastEdit,       \* outcome of the run's edit handler: none, ok, failed
    before,         \* plate and composite of every slot when the edit was pressed
    attempted,      \* the assets generate was called for in this Generate-all
    \* --- ui_components.py: one session of the Studio app's Generate page
    product_img,    \* st.session_state['product_img']
    generated_assets,   \* st.session_state['generated_assets']
    uiPc,           \* "idle", or "loop" inside Generate All
    selected_assets,    \* the asset types ticked when Generate All was pressed
    uiIdx,          \* loop index of Generate All
    uiResults,      \* Generate All's local results list
    uiErrors,       \* the asset types st.error reported as failed
    uiSuccess,      \* the count of the st.success message, -1 when none
    uiCalls,        \* images the generation service has returned so far
    \* --- draw_overlay_text: one call
    ovBase,         \* the base image
    ovQuote,        \* the quote argument, a sequence of characters
    ovClient,       \* the client_name argument
    ovProduct,      \* the product_name argument
    ovTruetype,     \* DejaVuSans.ttf loads (else ensure_font falls back)
    ovPc,           \* "idle", "call", "lines" (the loop over lines), "done"
    ovFields,       \* <<q, c, p>>: the sanitized fields
    ovLines,        \* the logical lines composed from them
    ovLine,         \* index of the next logical line
    ovY,            \* the pen's y
    ovDrawn,        \* the wrapped segments drawn so far, with font and position
    ovResult,       \* the returned image, or None
    \* --- the transforms called on image objects
    trHeap,         \* the image objects the caller holds
    trLast,         \* the last call: function, arguments, heap before, outcome
    \* --- ui_components.py: the chat page of the same session
    chatKeys,       \* the keys of CacheKeys present in st.session_state
    saved_images,   \* st.session_state['saved_images']
    selected_image_for_chat,    \* ...['selected_image_for_chat'], or NoSelection
    chat_history,   \* st.session_state['chat_history']
    chatCalls,      \* images the chat session has returned so far
    chatLast        \* outcome of the last Send, and the history before it

cropVars == <<cropSrc, cropRatio, cropOut, utilsOut>>
compVars == <<compPlate, compCutout, compScale, compOut>>
appVars == <<uploaded, assets, results, pc, click, editIdx, idx, newPlate,
             newComp, calls, exported, aborted, lastEdit, before, attempted>>
uiVars == <<product_img, generated_assets, uiPc, selected_assets, uiIdx,
            uiResults, uiErrors, uiSuccess, uiCalls>>
ovVars == <<ovBase, ovQuote, ovClient, ovProduct, ovTruetype, ovPc, ovFields,
            ovLines, ovLine, ovY, ovDrawn, ovResult>>
trVars == <<trHeap, trLast>>
chatVars == <<chatKeys, saved_images, selected_image_for_chat, chat_history,
              chatCalls, chatLast>>
vars == <<cropSrc, cropRatio, cropOut, utilsOut, compPlate, compCutout, compScale, compOut,
          uploaded, assets, results, pc, click, editIdx, idx, newPlate,
          newComp, calls, exported, aborted, lastEdit, before, attempted,
          product_img, generated_assets, uiPc, selected_assets, uiIdx,
          uiResults, uiErrors, uiSuccess, uiCalls,
          ovBase, ovQuote, ovClient, ovProduct, ovTruetype, ovPc, ovFields,
          ovLines, ovLine, ovY, ovDrawn, ovResult, trHeap, trLast,
          chatKeys, saved_images, selected_image_for_chat, chat_history,
          chatCalls, chatLast>>

\* ------------------------------------------------------------- arithmetic
Abs(n) == IF n < 0 THEN -n ELSE n

\* Python int(n/d) for d > 0: truncation toward zero.
PyInt(n, d) == IF n >= 0 THEN n \div d ELSE -((-n) \div d)

\* <<n, a, b>> with int(n*(a/b)) = floor(n*a/b) - 1 in double arithmetic,
\* n, a, b up to 25: a/b is rounded and the product lands just below the
\* integer (11*(15/11) = 14.999999999999998).
FloatMulShort ==
    {<<11, 15, 11>>, <<13, 15, 13>>, <<21, 17, 7>>, <<22, 15, 11>>,
     <<22, 15, 22>>, <<23, 13, 23>>, <<25, 23, 5>>}

\* <<n, a, b>> with int(n/(a/b)) = floor(n*b/a) - 1 in double arithmetic
\* (9/(9/7) = 6.999999999999999).
FloatDivShort ==
    {<<7, 7, 25>>, <<9, 9, 7>>, <<9, 9, 14>>, <<9, 18, 14>>, <<14, 7, 25>>,
     <<14, 14, 25>>, <<17, 17, 25>>, <<18, 9, 7>>, <<18, 9, 14>>,
     <<18, 18, 7>>, <<18, 18, 14>>, <<21, 3, 17>>, <<21, 7, 25>>,
     <<21, 21, 19>>, <<23, 23, 15>>, <<23, 23, 21>>, <<25, 25, 11>>,
     <<25, 25, 22>>}

\* int(n*(a/b)) and int(n/(a/b)) for n >= 0, a >= 0, b >= 1 (a >= 1 to divide)
py_mul_ratio(n, a, b) ==
    PyInt(n * a, b) - (IF <<n, a, b>> \in FloatMulShort THEN 1 ELSE 0)
py_div_ratio(n, a, b) ==
    PyInt(n * b, a) - (IF <<n, a, b>> \in FloatDivShort THEN 1 ELSE 0)

\* 1e-6 as 1/Million
Million == 1000000

\* --------------------------------------------------------------- images
\* An image value: tag "img" with its size and the offset of its origin in
\* the source it was cropped from; tag "ZeroDivisionError"/"ValueError" is
\* the exception a call raised instead of returning.
Img(w, h, x, y) == [tag |-> "img", w |-> w, h |-> h, x |-> x, y |-> y]
Raised(e) == [tag |-> e, w |-> 0, h |-> 0, x |-> 0, y |-> 0]
IsImg(r) == r.tag = "img"

\* ---------------------------------------------------------- aspect_crop
\* abs(cur-target) < 1e-6 with cur = w/h and target = rw/rh, h > 0, rh > 0:
\* |w*rh - rw*h| / (h*rh) < 1/Million
CropNoOpLoose(w, h, rw, rh) == Abs(w * rh - rw * h) * 10 < h * rh

CropNoOp(w, h, rw, rh) == Abs(w * rh - rw * h) * Million < h * rh

\* img.crop(box): PIL raises when right < left or lower < upper.
pil_crop(img, left, upper, right, lower) ==
    IF right < left \/ lower < upper
    THEN Raised("ValueError")
    ELSE Img(right - left, lower - upper, img.x + left, img.y + upper)

\* aspect_crop with the two branches exchanged: the width is recomputed
\* when the image is too tall, the height when it is too wide
aspect_crop_swapped(img, target_ratio) ==
    LET w == img.w
        h == img.h
        rw == target_ratio[1]
        rh == target_ratio[2]
    IN  IF rh = 0 THEN Raised("ZeroDivisionError")
        ELSE IF h = 0 THEN Raised("ZeroDivisionError")
        ELSE IF CropNoOp(w, h, rw, rh) THEN Img(w, h, img.x, img.y)
        ELSE IF w * rh < rw * h
             THEN LET new_w == py_mul_ratio(h, rw, rh)
                      left == (w - new_w) \div 2
                  IN  pil_crop(img, left, 0, left + new_w, h)
             ELSE IF rw = 0 THEN Raised("ZeroDivisionError")
             ELSE LET new_h == py_div_ratio(w, rw, rh)
                      top == (h - new_h) \div 2
                  IN  pil_crop(img, 0, top, w, top + new_h)

aspect_crop(img, target_ratio) ==
    LET w == img.w
        h == img.h
        rw == target_ratio[1]
        rh == target_ratio[2]
    IN  IF rh = 0 THEN Raised("ZeroDivisionError")          \* rw/rh
        ELSE IF h = 0 THEN Raised("ZeroDivisionError")     \* w/h
        ELSE IF CropNoOp(w, h, rw, rh) THEN Img(w, h, img.x, img.y)
        ELSE IF w * rh > rw * h
             THEN LET new_w == py_mul_ratio(h, rw, rh)
                      left == (w - new_w) \div 2
                  IN  pil_crop(img, left, 0, left + new_w, h)
             ELSE \* cur < target, so target > 0 and w/target is defined
                  LET new_h == py_div_ratio(w, rw, rh)
                      top == (h - new_h) \div 2
                  IN  pil_crop(img, 0, top, w, top + new_h)

\* utils.aspect_crop with the box at the left or top edge, not centred
utils_aspect_crop_uncentred(img, target_ratio) ==
    LET w == img.w
        h == img.h
        target_w == target_ratio[1]
        target_h == target_ratio[2]
    IN  IF target_h = 0 THEN Raised("ZeroDivisionError")
        ELSE IF h = 0 THEN Raised("ZeroDivisionError")
        ELSE IF CropNoOp(w, h, target_w, target_h) THEN Img(w, h, img.x, img.y)
        ELSE LET box == IF w * target_h > target_w * h
                        THEN <<0, 0, py_mul_ratio(h, target_w, target_h), h>>
                        ELSE <<0, 0, w, py_div_ratio(w, target_w, target_h)>>
             IN  pil_crop(img, box[1], box[2], box[3], box[4])

\* utils.py's aspect_crop: the ratio is unpacked into target_w, target_h,
\* each branch builds its box, and one img.crop(box) returns
utils_aspect_crop(img, target_ratio) ==
    LET w == img.w
        h == img.h
        target_w == target_ratio[1]
        target_h == target_ratio[2]
    IN  IF target_h = 0 THEN Raised("ZeroDivisionError")    \* target_w / target_h
        ELSE IF h = 0 THEN Raised("ZeroDivisionError")     \* w / h
        ELSE IF CropNoOp(w, h, target_w, target_h) THEN Img(w, h, img.x, img.y)
        ELSE LET box ==
                   IF w * target_h > target_w * h
                   THEN LET new_w == py_mul_ratio(h, target_w, target_h)
                            left == (w - new_w) \div 2
                        IN  <<left, 0, left + new_w, h>>
                   ELSE LET new_h == py_div_ratio(w, target_w, target_h)
                            top == (h - new_h) \div 2
                        IN  <<0, top, w, top + new_h>>
             IN  pil_crop(img, box[1], box[2], box[3], box[4])

\* The ratios the Edit tab passes, small ones (zero components included),
\* and one whose quotient is rounded in double arithmetic.
AppRatios == {<<1, 1>>, <<9, 16>>, <<16, 9>>}
Ratios == AppRatios \cup ((0..MaxRatio) \X (0..MaxRatio)) \cup {<<9, 7>>}

NoImg == Img(1, 1, 0, 0)

\* None, a plate and a composite that are not there
None == Raised("None")
NoPlate == [id |-> 0, w |-> 0, h |-> 0]
NoComp == [plate |-> 0, prod |-> None, w |-> 0, h |-> 0]
NoPreview == [set |-> FALSE, from |-> NoComp, aspect |-> "Keep", overlay |-> FALSE]

\* The session before the first interaction: nothing uploaded, the styles
\* JSON {"assets": []}, no "results" key.
AppIdle ==
    /\ uploaded = None
    /\ assets = <<>>
    /\ results = <<>>
    /\ pc = "idle"
    /\ click = "none"
    /\ editIdx = 0
    /\ idx = 0
    /\ newPlate = NoPlate
    /\ newComp = NoComp
    /\ calls = 0
    /\ exported = <<>>
    /\ aborted = FALSE
    /\ lastEdit = "none"
    /\ before = <<>>
    /\ attempted = <<>>

\* init_session_state's defaults
UIIdle ==
    /\ product_img = None
    /\ generated_assets = <<>>
    /\ uiPc = "idle"
    /\ selected_assets = <<>>
    /\ uiIdx = 0
    /\ uiResults = <<>>
    /\ uiErrors = <<>>
    /\ uiSuccess = -1
    /\ uiCalls = 0

\* No call of draw_overlay_text under way
Canvas(w, h, mode) == [w |-> w, h |-> h, mode |-> mode, px |-> "base"]
OvIdle ==
    /\ ovBase = Canvas(1, 1, "RGBA")
    /\ ovQuote = <<>>
    /\ ovClient = <<>>
    /\ ovProduct = <<>>
    /\ ovTruetype = TRUE
    /\ ovPc = "idle"
    /\ ovFields = <<>>
    /\ ovLines = <<>>
    /\ ovLine = 0
    /\ ovY = 0
    /\ ovDrawn = <<>>
    /\ ovResult = None

\* No image object held, no transform called
TrIdle == trHeap = <<>> /\ trLast = <<>>

\* The chat page after init_session_state: 'saved_images': [],
\* 'chat_history': [], 'selected_image_for_chat': None
NoSelection == [type |-> "None", image |-> 0]
NoSend == [kind |-> "none", before |-> <<>>]
ChatIdle ==
    /\ chatKeys = {"generated_assets", "saved_images", "chat_history"}
    /\ saved_images = <<>>
    /\ selected_image_for_chat = NoSelection
    /\ chat_history = <<>>
    /\ chatCalls = 0
    /\ chatLast = NoSend

CropIdle ==
    /\ cropSrc = NoImg
    /\ cropRatio = <<1, 1>>
    /\ cropOut = <<>>
    /\ utilsOut = <<>>
CompIdle ==
    /\ compPlate = NoImg
    /\ compCutout = NoImg
    /\ compScale = 100
    /\ compOut = <<>>

CropInit ==
    /\ CompIdle
    /\ OvIdle
    /\ TrIdle
    /\ ChatIdle
    /\ AppIdle
    /\ UIIdle
    /\ cropSrc \in {Img(w, h, 0, 0) : w \in 1..MaxDim, h \in 1..MaxDim}
    /\ cropRatio \in Ratios
    /\ cropOut = <<>>
    /\ utilsOut = <<>>

\* base = aspect_crop(base, ratio)
CropOnce ==
    /\ cropOut = <<>>
    /\ cropOut' = <<aspect_crop(cropSrc, cropRatio)>>
    /\ UNCHANGED <<cropSrc, cropRatio, utilsOut, compVars, appVars, uiVars, ovVars,
                   trVars, chatVars>>

\* ... and the same crop applied to the image the first one returned
CropAgain ==
    /\ Len(cropOut) = 1
    /\ IsImg(cropOut[1])
    /\ cropOut' = Append(cropOut, aspect_crop(cropOut[1], cropRatio))
    /\ UNCHANGED <<cropSrc, cropRatio, utilsOut, compVars, appVars, uiVars, ovVars,
                   trVars, chatVars>>

CropNext == CropOnce \/ CropAgain

SpecCrop == CropInit /\ [][CropNext]_vars

\* utils.aspect_crop(img, ratio) for the same image and ratio
UtilsCropOnce ==
    /\ utilsOut = <<>>
    /\ utilsOut' = <<utils_aspect_crop(cropSrc, cropRatio)>>
    /\ UNCHANGED <<cropSrc, cropRatio, cropOut, compVars, appVars, uiVars, ovVars,
                   trVars, chatVars>>

\* ... and applied to the image its first call returned
UtilsCropAgain ==
    /\ Len(utilsOut) = 1
    /\ IsImg(utilsOut[1])
    /\ utilsOut' = Append(utilsOut, utils_aspect_crop(utilsOut[1], cropRatio))
    /\ UNCHANGED <<cropSrc, cropRatio, cropOut, compVars, appVars, uiVars, ovVars,
                   trVars, chatVars>>

CropBothNext == CropOnce \/ CropAgain \/ UtilsCropOnce \/ UtilsCropAgain

SpecCropBoth == CropInit /\ [][CropBothNext]_vars

\* ------------------------------------------- composite_product_on_plate
\* The result of a composite: the returned image's size (w, h), the anchor
\* (x, y) the shadow and the product were pasted at, and the resized
\* cutout's size (rw, rh); or the exception raised.
Comp(w, h, x, y, rw, rh) ==
    [tag |-> "img", w |-> w, h |-> h, x |-> x, y |-> y, rw |-> rw, rh |-> rh]
CompRaised(e) ==
    [tag |-> e, w |-> 0, h |-> 0, x |-> 0, y |-> 0, rw |-> 0, rh |-> 0]

\* Image.resize(size): the same size returns a copy; otherwise the
\* resampler refuses a size below 1 ("height and width must be > 0").
pil_resize(img, tw, th) ==
    IF img.w = tw /\ img.h = th THEN Img(tw, th, 0, 0)
    ELSE IF tw < 1 \/ th < 1 THEN Raised("ValueError")
    ELSE Img(tw, th, 0, 0)

\* add_shadow_layer: every layer is created with fore.size
add_shadow_layer(fore) == Img(fore.w, fore.h, 0, 0)

\* target_w = int(W*scale)
target_width(W, scalePct) == PyInt(W * scalePct, 100)

\* int(ph*s) with s = target_w/pw
target_height(ph, target_w, pw) == py_mul_ratio(ph, target_w, pw)

\* anchor_x with the product flush against the right edge
anchor_x_right(W, rw) == W - rw

\* x = (W - resized.size[0])//2
anchor_x(W, rw) == (W - rw) \div 2

\* anchor_y with the default y_bias written in place of the argument
anchor_y_fixed_bias(H, biasPct) == PyInt(H * (100 - (50 + 12)), 100)

\* anchor_y measured from the top: int(H*(0.5 + y_bias))
anchor_y_from_top(H, biasPct) == PyInt(H * (50 + biasPct), 100)

\* y = int(H*(1.0 - (0.5 + y_bias)))
anchor_y(H, biasPct) == PyInt(H * (100 - (50 + biasPct)), 100)

\* Image.alpha_composite(im, dest): releases of PIL differ on a negative
\* dest (some raise "Destination must be non-negative", some clip), so
\* both outcomes are possible there; the image keeps its size.
alpha_composite_ok(x, y) ==
    IF x < 0 \/ y < 0 THEN {TRUE, FALSE} ELSE {TRUE}

\* ImageFilter.GaussianBlur on an image without pixels: the box blur
\* allocates a line buffer of xsize entries, and an allocation of zero
\* bytes succeeds or fails with the platform's allocator (MemoryError).
gaussian_blur_ok(img) ==
    IF img.w = 0 \/ img.h = 0 THEN {TRUE, FALSE} ELSE {TRUE}

\* The outcomes of composite_product_on_plate(plate, cutout, scale, y_bias).
composite_product_on_plate(plate, cutout, scalePct, biasPct) ==
    LET W == plate.w
        H == plate.h
        pw == cutout.w
        ph == cutout.h
        target_w == target_width(W, scalePct)
    IN  IF pw = 0 THEN {CompRaised("ZeroDivisionError")}       \* target_w/pw
        ELSE
        LET resized == pil_resize(cutout, target_w, target_height(ph, target_w, pw))
        IN  IF ~IsImg(resized) THEN {CompRaised(resized.tag)}
            ELSE
            LET x == anchor_x(W, resized.w)
                y == anchor_y(H, biasPct)
                sh == add_shadow_layer(resized)
            IN  {IF ~blurred THEN CompRaised("MemoryError")
                 ELSE IF ok THEN Comp(W, H, x, y, resized.w, resized.h)
                 ELSE CompRaised("ValueError")
                 : blurred \in gaussian_blur_ok(resized),
                   ok \in alpha_composite_ok(x, y)}

\* scale in (0, 1] and y_bias, in hundredths (0.55 and 0.12 are the defaults)
ScalePcts == {1, 10, 55, 100}
BiasPcts == {-10, 0, 12, 25, 50}

CompInit ==
    /\ CropIdle
    /\ OvIdle
    /\ TrIdle
    /\ ChatIdle
    /\ AppIdle
    /\ UIIdle
    /\ compPlate \in {Img(w, h, 0, 0) : w \in 1..MaxPlate, h \in 1..MaxPlate}
                     \cup {Img(15, 15, 0, 0)}
    /\ compCutout \in {Img(w, h, 0, 0) : w \in 0..MaxCut, h \in 0..MaxCut}
                      \cup {Img(11, 11, 0, 0)}
    /\ compScale \in ScalePcts
    /\ compOut = <<>>

\* comp = composite_product_on_plate(plate, base, scale, y_bias), and once
\* more on the same plate and cutout with another y_bias
Composite(biasPct) ==
    /\ Len(compOut) < 2
    /\ \E r \in composite_product_on_plate(compPlate, compCutout, compScale, biasPct) :
          compOut' = Append(compOut, <<biasPct, r>>)
    /\ UNCHANGED <<compPlate, compCutout, compScale,
                   cropVars, appVars, uiVars, ovVars, trVars, chatVars>>

CompNext == \E b \in BiasPcts : Composite(b)

SpecComposite == CompInit /\ [][CompNext]_vars

\* ------------------------------------------------- app.py: the session
\* composite_product_on_plate's defaults, in hundredths
DefaultScale == 55
DefaultBias == 12

\* The product images a user uploads: one that composites, and a sliver so
\* flat that its resized height int(ph*target_w/pw) is 0.
Products == {Img(PlateDim \div 2, PlateDim \div 2, 0, 0), Img(PlateDim, 1, 0, 0)}

\* The fallback styles' asset types, in their order
DefaultAssets ==
    <<"Instagram Post", "Instagram Story", "Website Banner", "Ad Creative",
      "Testimonial Graphic">>

Aspects == {"Keep", "1:1", "9:16", "16:9"}

\* The image gemini_generate_image returns on its n-th success
Plate(n) == [id |-> n, w |-> PlateDim, h |-> PlateDim]

\* composite_product_on_plate(plate, base) as the tabs call it; base is
\* cut_product, else product_img, and None has no .size
recomposite(plate, base) ==
    IF base = None THEN {CompRaised("AttributeError")}
    ELSE composite_product_on_plate(plate, base, DefaultScale, DefaultBias)

\* The composite image: the plate and product it was made from, its size
CompOf(plate, base, r) == [plate |-> plate.id, prod |-> base, w |-> r.w, h |-> r.h]

\* base after the optional aspect_crop and draw_overlay_text of `comp`
Preview(comp, aspect, overlay) ==
    [set |-> TRUE, from |-> comp, aspect |-> aspect, overlay |-> overlay]

\* r.get("preview", r["composite"])
final_img(r) == IF r.preview.set THEN r.preview
                ELSE Preview(r.composite, "Keep", FALSE)

PlatesAndComposites(rs) ==
    [i \in 1..Len(rs) |-> <<rs[i].plate, rs[i].composite>>]

\* Any interaction reruns the script from the top.
RunStart(c, i) ==
    /\ pc = "idle"
    /\ pc' = "generate_tab"
    /\ click' = c
    /\ editIdx' = i
    /\ idx' = 0
    /\ newPlate' = NoPlate
    /\ newComp' = NoComp
    /\ exported' = <<>>
    /\ aborted' = FALSE
    /\ lastEdit' = "none"
    /\ before' = IF c = "edit" THEN PlatesAndComposites(results) ELSE <<>>
    /\ attempted' = <<>>
    /\ UNCHANGED <<calls, results, cropVars, compVars, uiVars, ovVars, trVars, chatVars>>

\* The user uploads, replaces or removes the product image.
Upload(p) ==
    /\ p # uploaded
    /\ uploaded' = p
    /\ RunStart("none", 0)
    /\ UNCHANGED assets

\* The user edits the styles JSON (or has Gemini suggest it).
EditStyles(n) ==
    /\ n # Len(assets)
    /\ assets' = SubSeq(DefaultAssets, 1, n)
    /\ RunStart("none", 0)
    /\ UNCHANGED uploaded

\* The user presses "Generate all".
ClickGenerateAll ==
    /\ RunStart("go", 0)
    /\ UNCHANGED <<uploaded, assets>>

\* The user presses "Apply background edit" of a slot the last run rendered.
ClickApplyEdit(i) ==
    /\ ~aborted
    /\ i \in 1..Len(results)
    /\ RunStart("edit", i)
    /\ UNCHANGED <<uploaded, assets>>

\* Generate tab: if go: ... (the loop follows)
GenerateTab ==
    /\ pc = "generate_tab"
    /\ IF click = "go" /\ uploaded # None
       THEN /\ results' = <<>>
            /\ idx' = 1
            /\ pc' = "gen_loop"
       ELSE /\ idx' = 1
            /\ pc' = "edit_tab"
            /\ UNCHANGED results
    /\ UNCHANGED <<uploaded, assets, click, editIdx, newPlate, newComp, calls,
                   exported, aborted, lastEdit, before, attempted,
                   cropVars, compVars, uiVars, ovVars, trVars, chatVars>>

\* for i, asset in enumerate(assets): gemini_generate_image returned an
\* image; composite it and append the slot, or let the composite's
\* exception end the run.
GenAssetOk ==
    /\ pc = "gen_loop"
    /\ idx <= Len(assets)
    /\ calls < MaxCalls
    /\ calls' = calls + 1
    /\ attempted' = Append(attempted, idx)
    /\ \E r \in recomposite(Plate(calls + 1), uploaded) :
          IF IsImg(r)
          THEN /\ results' = Append(results,
                      [asset |-> assets[idx], plate |-> Plate(calls + 1),
                       composite |-> CompOf(Plate(calls + 1), uploaded, r),
                       preview |-> NoPreview])
               /\ idx' = idx + 1
               /\ UNCHANGED <<pc, aborted>>
          ELSE /\ aborted' = TRUE
               /\ pc' = "idle"
               /\ UNCHANGED <<results, idx>>
    /\ UNCHANGED <<uploaded, assets, click, editIdx, newPlate, newComp,
                   exported, lastEdit, before,
                   cropVars, compVars, uiVars, ovVars, trVars, chatVars>>

\* gemini_generate_image raised (no image returned, or the call failed):
\* nothing catches it in the loop, the script run ends there.
GenAssetFail ==
    /\ pc = "gen_loop"
    /\ idx <= Len(assets)
    /\ attempted' = Append(attempted, idx)
    /\ aborted' = TRUE
    /\ pc' = "idle"
    /\ UNCHANGED <<uploaded, assets, results, click, editIdx, idx, newPlate, newComp,
                   calls, exported, lastEdit, before,
                   cropVars, compVars, uiVars, ovVars, trVars, chatVars>>

GenLoopDone ==
    /\ pc = "gen_loop"
    /\ idx > Len(assets)
    /\ idx' = 1
    /\ pc' = "edit_tab"
    /\ UNCHANGED <<uploaded, assets, results, click, editIdx, newPlate, newComp,
                   calls, exported, aborted, lastEdit, before, attempted,
                   cropVars, compVars, uiVars, ovVars, trVars, chatVars>>

\* Edit tab, one slot of the loop: the preview is rebuilt from the slot's
\* composite and stored; the slot's button, if pressed, runs its handler.
EditSlot(aspect, overlay) ==
    /\ pc = "edit_tab"
    /\ idx <= Len(results)
    /\ results' = [results EXCEPT
                     ![idx].preview = Preview(results[idx].composite, aspect, overlay)]
    /\ IF click = "edit" /\ editIdx = idx
       THEN pc' = "edit_call" /\ UNCHANGED idx
       ELSE idx' = idx + 1 /\ UNCHANGED pc
    /\ UNCHANGED <<uploaded, assets, click, editIdx, newPlate, newComp, calls,
                   exported, aborted, lastEdit, before, attempted,
                   cropVars, compVars, uiVars, ovVars, trVars, chatVars>>

\* EditCallOk with the slot's plate assigned as soon as it is obtained
EditCallOk_StorePlateFirst ==
    /\ pc = "edit_call"
    /\ calls < MaxCalls
    /\ calls' = calls + 1
    /\ newPlate' = Plate(calls + 1)
    /\ results' = [results EXCEPT ![idx].plate = Plate(calls + 1)]
    /\ pc' = "edit_comp"
    /\ UNCHANGED <<uploaded, assets, click, editIdx, idx, newComp, exported,
                   aborted, lastEdit, before, attempted,
                   cropVars, compVars, uiVars, ovVars, trVars, chatVars>>

\* new_plate = gemini_generate_image(plate_edit_prompt, ref_image=r["plate"])
EditCallOk ==
    /\ pc = "edit_call"
    /\ calls < MaxCalls
    /\ calls' = calls + 1
    /\ newPlate' = Plate(calls + 1)
    /\ pc' = "edit_comp"
    /\ UNCHANGED <<uploaded, assets, results, click, editIdx, idx, newComp, exported,
                   aborted, lastEdit, before, attempted,
                   cropVars, compVars, uiVars, ovVars, trVars, chatVars>>

\* ... raised: except Exception reports "Edit failed" and the loop goes on
EditCallFail ==
    /\ pc = "edit_call"
    /\ lastEdit' = "failed"
    /\ idx' = idx + 1
    /\ pc' = "edit_tab"
    /\ UNCHANGED <<uploaded, assets, results, click, editIdx, newPlate, newComp, calls,
                   exported, aborted, before, attempted,
                   cropVars, compVars, uiVars, ovVars, trVars, chatVars>>

\* new_comp = composite_product_on_plate(new_plate, base_prod), or its
\* exception caught by the same except
EditComposite ==
    /\ pc = "edit_comp"
    /\ \E r \in recomposite(newPlate, uploaded) :
          IF IsImg(r)
          THEN /\ newComp' = CompOf(newPlate, uploaded, r)
               /\ pc' = "edit_store"
               /\ UNCHANGED <<idx, lastEdit>>
          ELSE /\ lastEdit' = "failed"
               /\ idx' = idx + 1
               /\ pc' = "edit_tab"
               /\ UNCHANGED newComp
    /\ UNCHANGED <<uploaded, assets, results, click, editIdx, newPlate, calls,
                   exported, aborted, before, attempted,
                   cropVars, compVars, uiVars, ovVars, trVars, chatVars>>

\* EditStore without the assignment of the composite
EditStore_PlateOnly ==
    /\ pc = "edit_store"
    /\ results' = [results EXCEPT ![idx].plate = newPlate,
                                  ![idx].preview = Preview(newComp, "Keep", FALSE)]
    /\ lastEdit' = "ok"
    /\ idx' = idx + 1
    /\ pc' = "edit_tab"
    /\ UNCHANGED <<uploaded, assets, click, editIdx, newPlate, newComp, calls,
                   exported, aborted, before, attempted,
                   cropVars, compVars, uiVars, ovVars, trVars, chatVars>>

\* EditStore without the assignment of the preview
EditStore_NoPreview ==
    /\ pc = "edit_store"
    /\ results' = [results EXCEPT ![idx].plate = newPlate,
                                  ![idx].composite = newComp]
    /\ lastEdit' = "ok"
    /\ idx' = idx + 1
    /\ pc' = "edit_tab"
    /\ UNCHANGED <<uploaded, assets, click, editIdx, newPlate, newComp, calls,
                   exported, aborted, before, attempted,
                   cropVars, compVars, uiVars, ovVars, trVars, chatVars>>

\* results[idx]["plate"] = new_plate; ["composite"] = new_comp;
\* ["preview"] = new_comp; st.success(...)
EditStore ==
    /\ pc = "edit_store"
    /\ results' = [results EXCEPT ![idx].plate = newPlate,
                                  ![idx].composite = newComp,
                                  ![idx].preview = Preview(newComp, "Keep", FALSE)]
    /\ lastEdit' = "ok"
    /\ idx' = idx + 1
    /\ pc' = "edit_tab"
    /\ UNCHANGED <<uploaded, assets, click, editIdx, newPlate, newComp, calls,
                   exported, aborted, before, attempted,
                   cropVars, compVars, uiVars, ovVars, trVars, chatVars>>

\* The Edit tab's loop is over (or there were no results to loop over).
EditTabDone ==
    /\ pc = "edit_tab"
    /\ idx > Len(results)
    /\ pc' = "export_tab"
    /\ UNCHANGED <<uploaded, assets, results, click, editIdx, idx, newPlate, newComp,
                   calls, exported, aborted, lastEdit, before, attempted,
                   cropVars, compVars, uiVars, ovVars, trVars, chatVars>>

\* Export tab: every slot's final_img is shown with its download button;
\* the run is over.
ExportTab ==
    /\ pc = "export_tab"
    /\ exported' = [i \in 1..Len(results) |-> final_img(results[i])]
    /\ pc' = "idle"
    /\ UNCHANGED <<uploaded, assets, results, click, editIdx, idx, newPlate, newComp,
                   calls, aborted, lastEdit, before, attempted,
                   cropVars, compVars, uiVars, ovVars, trVars, chatVars>>

Init == CropIdle /\ CompIdle /\ AppIdle /\ UIIdle /\ OvIdle /\ TrIdle /\ ChatIdle

Next ==
    \/ \E p \in Products \cup {None} : Upload(p)
    \/ \E n \in 0..MaxAssets : EditStyles(n)
    \/ ClickGenerateAll
    \/ \E i \in 1..MaxAssets : ClickApplyEdit(i)
    \/ GenerateTab
    \/ GenAssetOk
    \/ GenAssetFail
    \/ GenLoopDone
    \/ \E a \in Aspects, o \in BOOLEAN : EditSlot(a, o)
    \/ EditCallOk
    \/ EditCallFail
    \/ EditComposite
    \/ EditStore
    \/ EditTabDone
    \/ ExportTab

Spec == Init /\ [][Next]_vars

\* ------------------------------------- ui_components.py: Generate All
\* ASSET_CONFIGS' asset types are DefaultAssets, in the same order; the
\* ticked ones, in that order:
RECURSIVE Ticked(_, _)
Ticked(S, i) ==
    IF i > Len(DefaultAssets) THEN <<>>
    ELSE (IF i \in S THEN <<DefaultAssets[i]>> ELSE <<>>) \o Ticked(S, i + 1)

Selections == {S \in SUBSET (1..Len(DefaultAssets)) : Cardinality(S) <= MaxAssets}

\* init_session_state sets the key (to None) and nothing deletes it.
product_img_in_session == TRUE

\* What generate_content does: returns a response with an inline image,
\* returns one without, or raises.
Responses == {"image", "no_image", "raise"}

\* _extract_image_from_response: the first inline image, else None (0)
extract_image_from_response(resp, n) == IF resp = "image" THEN n ELSE 0

\* generate_asset's dict once generate_content has returned `resp`; n names
\* the image in it.  The testimonial overlay is applied to an image only.
generate_asset(asset_type, resp, n) ==
    LET generated_image == extract_image_from_response(resp, n)
    IN  [type |-> asset_type,
         image |-> generated_image,
         overlay |-> (asset_type = "Testimonial Graphic" /\ generated_image # 0)]

\* The user presses "Generate All" with the asset types of S ticked.
UIClickGenerateAll(S) ==
    /\ uiPc = "idle"
    /\ selected_assets' = Ticked(S, 1)
    /\ uiErrors' = <<>>
    /\ uiSuccess' = -1
    /\ IF S = {} \/ ~product_img_in_session
       THEN UNCHANGED <<uiPc, uiIdx, uiResults>>              \* st.warning
       ELSE /\ uiPc' = "loop"
            /\ uiIdx' = 1
            /\ uiResults' = <<>>
    /\ UNCHANGED <<product_img, generated_assets, uiCalls,
                   cropVars, compVars, appVars, ovVars, trVars, chatVars>>

\* for idx, asset_type in enumerate(selected_assets): try generate_asset,
\* append its dict; except Exception: st.error names the asset type.
UIGenerateAsset(resp) ==
    /\ uiPc = "loop"
    /\ uiIdx <= Len(selected_assets)
    /\ resp = "image" => uiCalls < MaxCalls
    /\ uiCalls' = IF resp = "image" THEN uiCalls + 1 ELSE uiCalls
    /\ IF resp = "raise"
       THEN /\ uiErrors' = Append(uiErrors, selected_assets[uiIdx])
            /\ UNCHANGED uiResults
       ELSE /\ uiResults' = Append(uiResults,
                   generate_asset(selected_assets[uiIdx], resp, uiCalls + 1))
            /\ UNCHANGED uiErrors
    /\ uiIdx' = uiIdx + 1
    /\ UNCHANGED <<product_img, generated_assets, uiPc, selected_assets, uiSuccess,
                   cropVars, compVars, appVars, ovVars, trVars, chatVars>>

\* st.session_state['generated_assets'] = results; st.success(count)
UIStoreResults ==
    /\ uiPc = "loop"
    /\ uiIdx > Len(selected_assets)
    /\ generated_assets' = uiResults
    /\ uiSuccess' = Len(uiResults)
    /\ uiPc' = "idle"
    /\ UNCHANGED <<product_img, selected_assets, uiIdx, uiResults, uiErrors, uiCalls,
                   cropVars, compVars, appVars, ovVars, trVars, chatVars>>

UIInit == CropIdle /\ CompIdle /\ AppIdle /\ UIIdle /\ OvIdle /\ TrIdle /\ ChatIdle

UINext ==
    \/ \E S \in Selections : UIClickGenerateAll(S)
    \/ \E resp \in Responses : UIGenerateAsset(resp)
    \/ UIStoreResults

SpecUI == UIInit /\ [][UINext]_vars

\* ---------------------------------------- ui_components.py: the chat page
\* The keys clear_cache deletes
CacheKeys == {"generated_assets", "saved_images", "chat_history"}

\* What the gallery's Save button stores: an asset's type and its image
SavedEntries == {[type |-> t, image |-> 1] : t \in {"Instagram Post", "Website Banner"}}

\* The text in the chat's input field when Send is pressed
Inputs == {"", "edit"}

\* for key in ['image', 'img', 'data', 'file']: the first key the selected
\* dict has; None (0) when nothing is selected
image_to_edit(selected_data) ==
    IF selected_data = NoSelection THEN 0 ELSE selected_data.image

\* chat_edit's return value once send_message has returned `resp`:
\* _extract_image_from_response(response), None when it holds no image
chat_edit(resp, n) == extract_image_from_response(resp, n)

\* The gallery column: with saved images and the selection still None,
\* st.session_state['selected_image_for_chat']['image'] raises TypeError
\* and the run ends before the Send button is drawn.
gallery_renders ==
    ~("saved_images" \in chatKeys /\ saved_images # <<>>
      /\ selected_image_for_chat = NoSelection)

user_message(user_input) == [role |-> "user", content |-> user_input]
assistant_message(edited_image) ==
    [role |-> "assistant", content |-> "Here's your edited image!",
     image |-> edited_image]

\* Save pressed on a generated asset: the list is created when the key is
\* missing, and the asset's type and image are appended.
ChatSave(d) ==
    /\ Len(saved_images) < MaxAssets
    /\ saved_images' = Append(saved_images, d)
    /\ chatKeys' = chatKeys \cup {"saved_images"}
    /\ chatLast' = NoSend
    /\ UNCHANGED <<selected_image_for_chat, chat_history, chatCalls,
                   cropVars, compVars, appVars, uiVars, ovVars, trVars>>

\* A thumbnail of the gallery pressed: that saved image is selected.
ChatSelect(i) ==
    /\ "saved_images" \in chatKeys
    /\ i \in 1..Len(saved_images)
    /\ selected_image_for_chat' = saved_images[i]
    /\ chatLast' = NoSend
    /\ UNCHANGED <<chatKeys, saved_images, chat_history, chatCalls,
                   cropVars, compVars, appVars, uiVars, ovVars, trVars>>

\* Send pressed with user_input in the field; send_message answers resp.
\* Without input: a warning.  With nothing to edit, or when chat_edit
\* raises: st.error.  Otherwise the request and the reply with
\* chat_edit's return value are appended and the script reruns.
ChatSend(user_input, resp) ==
    /\ gallery_renders
    /\ LET img == image_to_edit(selected_image_for_chat)
       IN  IF user_input = ""
           THEN /\ chatLast' = [kind |-> "warning", before |-> chat_history]
                /\ UNCHANGED <<chatKeys, chat_history, chatCalls>>
           ELSE IF img = 0 \/ resp = "raise"
           THEN /\ chatLast' = [kind |-> "error", before |-> chat_history]
                /\ UNCHANGED <<chatKeys, chat_history, chatCalls>>
           ELSE /\ Len(chat_history) < 2 * MaxCalls
                /\ resp = "image" => chatCalls < MaxCalls
                /\ chatCalls' = IF resp = "image" THEN chatCalls + 1 ELSE chatCalls
                /\ chatKeys' = chatKeys \cup {"chat_history"}
                /\ chat_history' =
                      chat_history \o <<user_message(user_input),
                                        assistant_message(chat_edit(resp, chatCalls + 1))>>
                /\ chatLast' = [kind |-> "sent", before |-> chat_history]
    /\ UNCHANGED <<saved_images, selected_image_for_chat,
                   cropVars, compVars, appVars, uiVars, ovVars, trVars>>

\* clear_cache: generated_assets, saved_images and chat_history are
\* deleted from the session state.
ClearCache ==
    /\ chatKeys \cap CacheKeys # {}
    /\ chatKeys' = chatKeys \ CacheKeys
    /\ saved_images' = <<>>
    /\ chat_history' = <<>>
    /\ generated_assets' = <<>>
    /\ chatLast' = NoSend
    /\ UNCHANGED <<selected_image_for_chat, chatCalls, product_img, uiPc,
                   selected_assets, uiIdx, uiResults, uiErrors, uiSuccess, uiCalls,
                   cropVars, compVars, appVars, ovVars, trVars>>

\* init_session_state: every default whose key is missing is set.
InitSessionState ==
    /\ ~(CacheKeys \subseteq chatKeys)
    /\ chatKeys' = chatKeys \cup CacheKeys
    /\ chatLast' = NoSend
    /\ UNCHANGED <<saved_images, selected_image_for_chat, chat_history, chatCalls,
                   cropVars, compVars, appVars, uiVars, ovVars, trVars>>

ChatInit == CropIdle /\ CompIdle /\ AppIdle /\ UIIdle /\ OvIdle /\ TrIdle /\ ChatIdle

ChatNext ==
    \/ \E d \in SavedEntries : ChatSave(d)
    \/ \E i \in 1..MaxAssets : ChatSelect(i)
    \/ \E user_input \in Inputs, resp \in Responses : ChatSend(user_input, resp)
    \/ ClearCache
    \/ InitSessionState

SpecChat == ChatInit /\ [][ChatNext]_vars

\* ------------------------------------------------- draw_overlay_text
\* Text is a sequence of characters; the curly quotes and the dash of the
\* composed lines are the characters "ldquo", "rdquo" and "mdash".
Chars == {"a", " ", "[", "]"}
Strings(n) == UNION {[1..k -> Chars] : k \in 0..n}

\* s.replace(ch, "")
replace(s, ch) == SelectSeq(s, LAMBDA c : c # ch)

\* s.strip(): leading and trailing whitespace removed
RECURSIVE lstrip(_)
lstrip(s) == IF s # <<>> /\ Head(s) = " " THEN lstrip(Tail(s)) ELSE s

RECURSIVE rstrip(_)
rstrip(s) ==
    IF s # <<>> /\ s[Len(s)] = " " THEN rstrip(SubSeq(s, 1, Len(s) - 1)) ELSE s

strip(s) == rstrip(lstrip(s))

\* s.split(): the maximal runs of non-whitespace characters, in order
RECURSIVE split_from(_, _, _, _)
split_from(s, i, word, words) ==
    IF i > Len(s)
    THEN IF word # <<>> THEN Append(words, word) ELSE words
    ELSE IF s[i] = " "
         THEN split_from(s, i + 1, <<>>,
                         IF word # <<>> THEN Append(words, word) ELSE words)
         ELSE split_from(s, i + 1, Append(word, s[i]), words)

split(s) == split_from(s, 1, <<>>, <<>>)

\* clean with the whitespace stripped before the brackets are removed
clean_strip_first(s) == replace(replace(strip(s), "["), "]")

\* clean without the removal of the brackets
clean_keep_brackets(s) == strip(s)

\* clean(s): (s or "").replace("[","").replace("]","").strip()
clean(s) == strip(replace(replace(s, "["), "]"))

\* lines with the product name first
compose_lines_product_first(q, c, p) ==
    (IF p # <<>> THEN <<p>> ELSE <<>>)
    \o (IF q # <<>> THEN <<(<<"ldquo">> \o q \o <<"rdquo">>)>> ELSE <<>>)
    \o (IF c # <<>> THEN <<(<<"mdash", " ">> \o c)>> ELSE <<>>)

\* lines: the curly-quoted quote, the dashed client name, the product name
compose_lines(q, c, p) ==
    (IF q # <<>> THEN <<(<<"ldquo">> \o q \o <<"rdquo">>)>> ELSE <<>>)
    \o (IF c # <<>> THEN <<(<<"mdash", " ">> \o c)>> ELSE <<>>)
    \o (IF p # <<>> THEN <<p>> ELSE <<>>)

\* ensure_font(size): DejaVuSans at that size, or PIL's default font,
\* whose glyphs do not follow the requested size
ensure_font(size) == [truetype |-> ovTruetype, size |-> size]

\* draw.textlength(text, font), in half pixels: every character advances
\* half the font size, 6 pixels in the default font
textlength(text, font) ==
    Len(text) * (IF font.truetype THEN font.size ELSE 12)

\* x, y, max_w with the default left_ratio, top_ratio, wrap_ratio
overlay_x(W) == PyInt(W * 6, 100)
overlay_y(H) == PyInt(H * 10, 100)
overlay_max_w(W) == PyInt(W * 44, 100)

\* base_size = max(int(min(W,H)*0.04), 18); spacing = int(base_size*0.6)
base_size(W, H) ==
    LET m == PyInt((IF W < H THEN W ELSE H) * 4, 100)
    IN  IF m > 18 THEN m ELSE 18
spacing(W, H) == PyInt(base_size(W, H) * 6, 10)

\* the loop's body run at most once
shrink_once(text, fsize, max_w) ==
    IF textlength(text, ensure_font(fsize)) > 2 * max_w /\ fsize > 10
    THEN fsize - 1
    ELSE fsize

\* shrink-to-fit: while textlength(text) > max_w and fsize > 10: fsize -= 1
RECURSIVE shrink(_, _, _)
shrink(text, fsize, max_w) ==
    IF textlength(text, ensure_font(fsize)) > 2 * max_w /\ fsize > 10
    THEN shrink(text, fsize - 1, max_w)
    ELSE fsize

\* the wrap test measured without the separating spaces
fits_unspaced(test, font, max_w) ==
    textlength(replace(test, " "), font) <= 2 * max_w

\* draw.textlength(test, font=font) <= max_w
fits(test, font, max_w) == textlength(test, font) <= 2 * max_w

\* naive wrap: for w in words: test = (line+" "+w).strip(); ...
RECURSIVE wrap(_, _, _, _, _, _)
wrap(words, i, line, wrapped, font, max_w) ==
    IF i > Len(words)
    THEN IF line # <<>> THEN Append(wrapped, line) ELSE wrapped
    ELSE LET test == strip(line \o <<" ">> \o words[i])
         IN  IF fits(test, font, max_w)
             THEN wrap(words, i + 1, test, wrapped, font, max_w)
             ELSE wrap(words, i + 1, words[i], Append(wrapped, line), font, max_w)

\* The segments of one logical line as drawn: text, font, pen position.
RECURSIVE draw_segments(_, _, _, _, _, _, _)
draw_segments(wrapped, j, n, font, x, y, step) ==
    IF j > Len(wrapped) THEN <<>>
    ELSE <<[line |-> n, text |-> wrapped[j], font |-> font, x |-> x, y |-> y]>>
         \o draw_segments(wrapped, j + 1, n, font, x, y + step, step)

\* The base images: squares of these sides, with or without alpha
Sides == {10, 50, 100, 500}
Modes == {"RGBA", "RGB"}
ClientNames == {<<>>, <<"[", " ", "]">>, <<"a", " ", "a">>}
ProductNames == {<<>>, <<" ", "a", "]">>}

OverlayInit ==
    /\ CropIdle
    /\ CompIdle
    /\ AppIdle
    /\ UIIdle
    /\ TrIdle
    /\ ChatIdle
    /\ ovBase \in {Canvas(n, n, m) : n \in Sides, m \in Modes}
    /\ ovQuote \in Strings(MaxStr)
    /\ ovClient \in ClientNames
    /\ ovProduct \in ProductNames
    /\ ovTruetype \in BOOLEAN
    /\ ovPc = "call"
    /\ ovFields = <<>>
    /\ ovLines = <<>>
    /\ ovLine = 0
    /\ ovY = 0
    /\ ovDrawn = <<>>
    /\ ovResult = None

\* img = base.copy().convert("RGBA"): the base's pixels in RGBA
convert_rgba(img) == [img EXCEPT !.mode = "RGBA"]

\* The image returned: the canvas with the segments drawn on it
Overlaid(img, drawn) ==
    [w |-> img.w, h |-> img.h, mode |-> img.mode, px |-> img.px, marks |-> drawn]

\* Lines 82-98: the copy, the geometry, the sanitized fields, the lines;
\* with no line the copy is returned as it is.
OverlayCompose ==
    /\ ovPc = "call"
    /\ LET q == clean(ovQuote)
           c == clean(ovClient)
           p == clean(ovProduct)
           lines == compose_lines(q, c, p)
       IN  /\ ovFields' = <<q, c, p>>
           /\ ovLines' = lines
           /\ IF lines = <<>>
              THEN /\ ovResult' = Overlaid(convert_rgba(ovBase), <<>>)
                   /\ ovPc' = "done"
                   /\ UNCHANGED <<ovLine, ovY>>
              ELSE /\ ovLine' = 1
                   /\ ovY' = overlay_y(ovBase.h)
                   /\ ovPc' = "lines"
                   /\ UNCHANGED ovResult
    /\ UNCHANGED <<ovBase, ovQuote, ovClient, ovProduct, ovTruetype, ovDrawn,
                   cropVars, compVars, appVars, uiVars, trVars, chatVars>>

\* for text in lines: shrink-to-fit, wrap, draw every wrapped segment
OverlayLine ==
    /\ ovPc = "lines"
    /\ ovLine <= Len(ovLines)
    /\ LET text == ovLines[ovLine]
           max_w == overlay_max_w(ovBase.w)
           fsize == shrink(text, base_size(ovBase.w, ovBase.h), max_w)
           font == ensure_font(fsize)
           wrapped == wrap(split(text), 1, <<>>, <<>>, font, max_w)
           step == fsize + PyInt(spacing(ovBase.w, ovBase.h) * 5, 10)
       IN  /\ ovDrawn' = ovDrawn \o draw_segments(wrapped, 1, ovLine, font,
                                                  overlay_x(ovBase.w), ovY, step)
           /\ ovY' = ovY + Len(wrapped) * step
                         + PyInt(spacing(ovBase.w, ovBase.h) * 4, 10)
    /\ ovLine' = ovLine + 1
    /\ UNCHANGED <<ovBase, ovQuote, ovClient, ovProduct, ovTruetype, ovPc,
                   ovFields, ovLines, ovResult,
                   cropVars, compVars, appVars, uiVars, trVars, chatVars>>

\* return img
OverlayReturn ==
    /\ ovPc = "lines"
    /\ ovLine > Len(ovLines)
    /\ ovResult' = Overlaid(convert_rgba(ovBase), ovDrawn)
    /\ ovPc' = "done"
    /\ UNCHANGED <<ovBase, ovQuote, ovClient, ovProduct, ovTruetype, ovFields,
                   ovLines, ovLine, ovY, ovDrawn,
                   cropVars, compVars, appVars, uiVars, trVars, chatVars>>

OverlayNext == OverlayCompose \/ OverlayLine \/ OverlayReturn

SpecOverlay == OverlayInit /\ [][OverlayNext]_vars

\* ------------------------------------- the transforms on image objects
\* An image object: its size and mode, the function that created it, and
\* the number of in-place writes made to its pixels since (putalpha,
\* alpha_composite, ImageDraw text).  trHeap[i] is the object with id i.
Obj(w, h, mode, by) == [w |-> w, h |-> h, mode |-> mode, by |-> by, writes |-> 0]

\* An in-place write to object id
Write(heap, id) == [heap EXCEPT ![id].writes = @ + 1]

\* A call's outcome: the heap it leaves and the id it returns, or the
\* exception it raises (res = 0)
Ret(heap, id) == [heap |-> heap, res |-> id, tag |-> "ok"]
Exc(heap, e) == [heap |-> heap, res |-> 0, tag |-> e]

\* The objects the caller can still reach after a call that started with
\* n objects: those n, and the returned one if it is new.
Reachable(o, n) ==
    [o EXCEPT !.heap = IF o.res > n
                       THEN Append(SubSeq(o.heap, 1, n), o.heap[o.res])
                       ELSE SubSeq(o.heap, 1, n),
              !.res = IF o.res > n THEN n + 1 ELSE o.res]

GeomOf(o) == Img(o.w, o.h, 0, 0)

\* aspect_crop: img.copy() or img.crop(box), a new image either way
obj_aspect_crop(heap, img, target_ratio) ==
    LET r == aspect_crop(GeomOf(heap[img]), target_ratio)
    IN  IF IsImg(r)
        THEN {Ret(Append(heap, Obj(r.w, r.h, heap[img].mode, "aspect_crop")),
                  Len(heap) + 1)}
        ELSE {Exc(heap, r.tag)}

\* the shadow canvas enlarged to hold the offset shadow
shadow_canvas_enlarged(fore, offset) ==
    <<fore.w + Abs(offset[1]), fore.h + Abs(offset[2])>>

\* Image.new("RGBA", fore.size, (0,0,0,0))
shadow_canvas(fore, offset) == <<fore.w, fore.h>>

\* add_shadow_layer(fore, blur, offset, opacity): shadow and shadow_draw are
\* new images; putalpha writes shadow_draw, filter returns a new image,
\* alpha_composite writes shadow, split/point/merge return new images.
obj_add_shadow_layer(heap, fore, blur, offset, opacity) ==
    LET n == Len(heap)
        size == shadow_canvas(heap[fore], offset)
        shadow == n + 1
        shadow_draw == n + 2
        h1 == Append(heap, Obj(size[1], size[2], "RGBA", "new"))
        h2 == Append(h1, Obj(heap[fore].w, heap[fore].h, "RGBA", "new"))
        h3 == Write(h2, shadow_draw)
        h4 == Append(h3, Obj(h3[shadow_draw].w, h3[shadow_draw].h, "RGBA", "filter"))
        h5 == Write(h4, shadow)
        h6 == Append(h5, Obj(h5[shadow].w, h5[shadow].h, "RGBA", "add_shadow_layer"))
    IN  {Reachable(IF ~blurred THEN Exc(h3, "MemoryError")
                   ELSE IF ~ok THEN Exc(h4, "ValueError")
                   ELSE Ret(h6, Len(h6)), n)
         : blurred \in gaussian_blur_ok(heap[fore]),
           ok \in alpha_composite_ok(offset[1], offset[2])}

\* composite_product_on_plate: bg is a copy of the plate, resized a new
\* image, the two alpha_composite calls write bg, bg is returned.
obj_composite_product_on_plate(heap, plate, cutout, scalePct, biasPct) ==
    LET n == Len(heap)
        W == heap[plate].w
        H == heap[plate].h
        pw == heap[cutout].w
        ph == heap[cutout].h
        target_w == target_width(W, scalePct)
        bg == n + 1
        h1 == Append(heap, Obj(W, H, "RGBA", "composite_product_on_plate"))
    IN  IF pw = 0 THEN {Exc(heap, "ZeroDivisionError")}
        ELSE
        LET resized == pil_resize(GeomOf(heap[cutout]), target_w,
                                  target_height(ph, target_w, pw))
            h2 == Append(h1, Obj(resized.w, resized.h, heap[cutout].mode, "resize"))
        IN  IF ~IsImg(resized) THEN {Exc(heap, resized.tag)}
            ELSE {Reachable(IF sh.tag # "ok" THEN sh
                            ELSE IF ~ok THEN Exc(sh.heap, "ValueError")
                            ELSE Ret(Write(Write(sh.heap, bg), bg), bg), n)
                  : sh \in obj_add_shadow_layer(h2, n + 2, 24, <<18, 18>>, 120),
                    ok \in alpha_composite_ok(anchor_x(W, resized.w),
                                              anchor_y(H, biasPct))}

\* the overlay drawn on the base itself
overlay_canvas_in_place(heap, base) == Ret(heap, base)

\* img = base.copy().convert("RGBA")
overlay_canvas(heap, base) ==
    Ret(Append(heap, Obj(heap[base].w, heap[base].h, "RGBA", "draw_overlay_text")),
        Len(heap) + 1)

\* draw_overlay_text: draw.text writes img when there is a line to draw
obj_draw_overlay_text(heap, base, has_lines) ==
    LET img == overlay_canvas(heap, base)
    IN  {Reachable(IF has_lines THEN Ret(Write(img.heap, img.res), img.res) ELSE img,
                   Len(heap))}

\* What rembg's remove does with the PNG bytes: returns a PNG, returns
\* bytes that are no image, or raises
Tools == {"png", "garbage", "raise"}

\* try_auto_cutout without its try/except
try_auto_cutout_unguarded(heap, img, REMBG_OK, tool) ==
    IF REMBG_OK
    THEN IF heap[img].w >= 1 /\ heap[img].h >= 1 /\ tool = "png"
         THEN Ret(Append(heap, Obj(heap[img].w, heap[img].h, "RGBA", "rembg")),
                  Len(heap) + 1)
         ELSE Exc(heap, "Exception")
    ELSE Ret(heap, img)

\* try_auto_cutout: with rembg imported, img_bytes (which cannot save an
\* image without pixels), remove and Image.open run inside the try; every
\* Exception falls through to `return img`.  The alpha test that follows
\* (Image.eval on the last band, getbbox) reads img and returns img on
\* both of its branches.
try_auto_cutout(heap, img, REMBG_OK, tool) ==
    IF REMBG_OK /\ heap[img].w >= 1 /\ heap[img].h >= 1 /\ tool = "png"
    THEN Ret(Append(heap, Obj(heap[img].w, heap[img].h, "RGBA", "rembg")),
             Len(heap) + 1)
    ELSE Ret(heap, img)

Blurs == {0, 18, 24}
Offsets == {<<0, 0>>, <<20, 16>>, <<-1, 2>>}
Opacities == {0, 110}

\* The uploaded product and a plate the service returned
TrInit ==
    /\ ChatIdle
    /\ CropIdle
    /\ CompIdle
    /\ AppIdle
    /\ UIIdle
    /\ OvIdle
    /\ trHeap \in {<<Obj(PlateDim, PlateDim, "RGB", "upload"),
                     Obj(p.w, p.h, "RGBA", "upload")>> : p \in Products}
    /\ trLast = <<>>

\* A call fn(args; params) with outcome o, made on the heap as it is
Call(fn, args, params, o) ==
    /\ Len(o.heap) <= MaxObjs
    /\ trHeap' = o.heap
    /\ trLast' = <<[fn |-> fn, args |-> args, params |-> params,
                    before |-> trHeap, tag |-> o.tag, res |-> o.res]>>
    /\ UNCHANGED <<cropVars, compVars, appVars, uiVars, ovVars, chatVars>>

CallAspectCrop(img, r) ==
    \E o \in obj_aspect_crop(trHeap, img, r) : Call("aspect_crop", <<img>>, r, o)

CallAddShadowLayer(fore, blur, offset, opacity) ==
    \E o \in obj_add_shadow_layer(trHeap, fore, blur, offset, opacity) :
        Call("add_shadow_layer", <<fore>>, <<blur, offset[1], offset[2], opacity>>, o)

CallComposite(plate, cutout, biasPct) ==
    \E o \in obj_composite_product_on_plate(trHeap, plate, cutout, DefaultScale, biasPct) :
        Call("composite_product_on_plate", <<plate, cutout>>, <<DefaultScale, biasPct>>, o)

CallDrawOverlayText(base, has_lines) ==
    \E o \in obj_draw_overlay_text(trHeap, base, has_lines) :
        Call("draw_overlay_text", <<base>>, <<IF has_lines THEN 1 ELSE 0>>, o)

CallTryAutoCutout(img, REMBG_OK, tool) ==
    Call("try_auto_cutout", <<img>>, <<REMBG_OK, tool>>,
         try_auto_cutout(trHeap, img, REMBG_OK, tool))

TrNext ==
    \/ \E i \in 1..Len(trHeap), r \in AppRatios : CallAspectCrop(i, r)
    \/ \E i \in 1..Len(trHeap), b \in Blurs, d \in Offsets, a \in Opacities :
          CallAddShadowLayer(i, b, d, a)
    \/ \E i, j \in 1..Len(trHeap), b \in {0, DefaultBias} : CallComposite(i, j, b)
    \/ \E i \in 1..Len(trHeap), t \in BOOLEAN : CallDrawOverlayText(i, t)
    \/ \E i \in 1..Len(trHeap), ok \in BOOLEAN, t \in Tools : CallTryAutoCutout(i, ok, t)

SpecTransforms == TrInit /\ [][TrNext]_vars

\* ------------------------------------------------------- claims: crop
\* The image has exactly the target ratio w:h = rw:rh.
AtRatio(img, r) == img.w * r[2] = img.h * r[1]

PositiveRatio == cropRatio[1] >= 1 /\ cropRatio[2] >= 1

\* C1 as stated: for every source size and every ratio of positive
\* integers, cropping the result of a crop again with the same ratio
\* returns the same image (same size, same content region).
C1_CropIdempotent ==
    (Len(cropOut) = 2 /\ PositiveRatio) => cropOut[2] = cropOut[1]

\* C1 amended: the second crop with the same positive ratio returns the
\* same image exactly when the first crop's result is exactly at the
\* target ratio; otherwise it removes further rows or columns.
C1_IdempotentIffAtRatio ==
    (Len(cropOut) = 2 /\ PositiveRatio) =>
        (cropOut[2] = cropOut[1] <=> AtRatio(cropOut[1], cropRatio))

\* A second crop that removed nothing, after a first crop that did.
C1_Witness ==
    /\ Len(cropOut) = 2
    /\ PositiveRatio
    /\ cropOut[1] # cropSrc
    /\ cropOut[2] = cropOut[1]

\* C10 as stated: aspect_crop never returns an image when the target
\* ratio has zero width or zero height; it fails instead.
C10_ZeroRatioFails ==
    (Len(cropOut) >= 1 /\ (cropRatio[1] = 0 \/ cropRatio[2] = 0)) =>
        ~IsImg(cropOut[1])

\* C12: aspect_crop never upscales: with a ratio of positive integers,
\* every image it returns is no wider and no taller than the image it was
\* given, on the first crop and on the crop of its result.
C12_CropNeverUpscales ==
    PositiveRatio =>
        /\ Len(cropOut) >= 1 =>
              /\ IsImg(cropOut[1])
              /\ cropOut[1].w <= cropSrc.w
              /\ cropOut[1].h <= cropSrc.h
        /\ (Len(cropOut) = 2 /\ IsImg(cropOut[2])) =>
              /\ cropOut[2].w <= cropOut[1].w
              /\ cropOut[2].h <= cropOut[1].h

\* Two crops that each removed something: columns, then rows.
C12_Witness ==
    /\ Len(cropOut) = 2
    /\ PositiveRatio
    /\ IsImg(cropOut[2])
    /\ cropOut[1].w < cropSrc.w
    /\ cropOut[2].h < cropOut[1].h
    /\ cropOut[2].h >= 1

\* C21 as stated: with a ratio of positive integers the first crop's box
\* is (left, 0, left+newW, H), newW = floor(H*rw/rh), left =
\* floor((W-newW)/2), when W/H > rw/rh; (0, top, W, top+newH), newH =
\* floor(W*rh/rw), top = floor((H-newH)/2), when W/H < rw/rh; and
\* 1000x500 at (1,1) gives 500x500 at left 250, top 0.
C21_CropBoxAsSpecified ==
    /\ (Len(cropOut) >= 1 /\ PositiveRatio) =>
          LET W == cropSrc.w
              H == cropSrc.h
              rw == cropRatio[1]
              rh == cropRatio[2]
              newW == (H * rw) \div rh
              newH == (W * rh) \div rw
          IN  IF W * rh > rw * H
              THEN cropOut[1] = Img(newW, H, (W - newW) \div 2, 0)
              ELSE IF W * rh < rw * H
              THEN cropOut[1] = Img(W, newH, 0, (H - newH) \div 2)
              ELSE cropOut[1] = cropSrc
    /\ aspect_crop(Img(1000, 500, 0, 0), <<1, 1>>) = Img(500, 500, 250, 0)

\* C27 as stated: for a source with W, H >= 1 and a ratio of positive
\* integers, the image aspect_crop returns has width and height >= 1.
C27_CropNeverEmpty ==
    (Len(cropOut) >= 1 /\ PositiveRatio) =>
        /\ IsImg(cropOut[1])
        /\ cropOut[1].w >= 1
        /\ cropOut[1].h >= 1

\* C26: app.py's and utils.py's aspect_crop agree: for the same image and
\* ratio both return the same crop box, or both the unchanged copy, or
\* both fail the same way; so do their second applications.
C26_CropImplementationsAgree ==
    \A k \in 1..2 :
        (Len(cropOut) >= k /\ Len(utilsOut) >= k) => utilsOut[k] = cropOut[k]

\* Both implementations applied twice to an image that had to be cropped,
\* at a ratio whose quotient double arithmetic rounds.
C26_Witness ==
    /\ Len(cropOut) = 2
    /\ Len(utilsOut) = 2
    /\ cropRatio = <<9, 7>>
    /\ IsImg(utilsOut[1])
    /\ utilsOut[1] # cropSrc
    /\ utilsOut[1].y > 0
    /\ utilsOut[2] = cropOut[2]

\* -------------------------------------------------- claims: compositor
\* The calls made so far on a cutout with positive width and height.
CompCalls == IF compCutout.w >= 1 /\ compCutout.h >= 1
             THEN 1..Len(compOut) ELSE {}
CompBias(i) == compOut[i][1]
CompRes(i) == compOut[i][2]

\* C7 as stated: with y_bias = 0 the resized cutout's vertical centre is
\* the plate's vertical centre, y + rh/2 = H/2 up to rounding.
C7_CutoutCentredAtZeroBias ==
    \A i \in CompCalls :
        (CompBias(i) = 0 /\ IsImg(CompRes(i))) =>
            Abs(2 * CompRes(i).y + CompRes(i).rh - compPlate.h) <= 2

\* C7 amended: with y_bias = 0 the resized cutout's top edge is at the
\* plate's vertical centre, y = floor(H/2).
C7_TopEdgeAtCentre ==
    \A i \in CompCalls :
        (CompBias(i) = 0 /\ IsImg(CompRes(i))) =>
            /\ 2 * CompRes(i).y <= compPlate.h
            /\ compPlate.h <= 2 * CompRes(i).y + 1

C7_Witness ==
    \E i \in CompCalls :
        /\ CompBias(i) = 0
        /\ IsImg(CompRes(i))
        /\ CompRes(i).rh >= 3
        /\ CompRes(i).y >= 2

\* C8 as stated: the vertical anchor y is non-decreasing in y_bias (a
\* larger y_bias never places the product higher).
C8_AnchorNonDecreasing ==
    \A i, j \in CompCalls :
        (IsImg(CompRes(i)) /\ IsImg(CompRes(j)) /\ CompBias(i) <= CompBias(j)) =>
            CompRes(i).y <= CompRes(j).y

\* C8 amended: the vertical anchor y is non-increasing in y_bias (a larger
\* y_bias never places the product lower; y(y_bias > 0) <= y(0)).
C8_AnchorNonIncreasing ==
    \A i, j \in CompCalls :
        (IsImg(CompRes(i)) /\ IsImg(CompRes(j)) /\ CompBias(i) <= CompBias(j)) =>
            CompRes(i).y >= CompRes(j).y

C8_Witness ==
    \E i, j \in CompCalls :
        /\ IsImg(CompRes(i)) /\ IsImg(CompRes(j))
        /\ CompBias(i) = 0 /\ CompBias(j) > 0
        /\ CompRes(i).y > CompRes(j).y

\* C9 as stated: for every plate, every cutout with positive width and
\* height and every scale in (0, 1], the call returns an image of the
\* plate's size.
C9_CompositeKeepsPlateSize ==
    \A i \in CompCalls :
        /\ IsImg(CompRes(i))
        /\ CompRes(i).w = compPlate.w
        /\ CompRes(i).h = compPlate.h

\* C11 as stated: a call on a cutout of zero width or zero height never
\* returns a composite; it fails.
C11_ZeroCutoutFails ==
    \A i \in 1..Len(compOut) :
        (compCutout.w = 0 \/ compCutout.h = 0) => ~IsImg(compOut[i][2])

\* C20: the horizontal anchor is x = floor((W - rw)/2): the left margin x
\* and the right margin W - rw - x differ by at most 1, the left one being
\* the smaller; a plate 1000 wide at scale 0.55 gives rw = 550 and x = 225.
C20_HorizontalAnchorCentred ==
    /\ \A i \in CompCalls :
          IsImg(CompRes(i)) =>
              LET left == CompRes(i).x
                  right == compPlate.w - CompRes(i).rw - CompRes(i).x
              IN  /\ CompRes(i).rw = target_width(compPlate.w, compScale)
                  /\ 2 * left <= compPlate.w - CompRes(i).rw
                  /\ compPlate.w - CompRes(i).rw <= 2 * left + 1
                  /\ left <= right
                  /\ right <= left + 1
    /\ target_width(1000, DefaultScale) = 550
    /\ anchor_x(1000, target_width(1000, DefaultScale)) = 225

\* A returned composite whose margins cannot be equal: W - rw is odd.
C20_Witness ==
    \E i \in CompCalls :
        /\ IsImg(CompRes(i))
        /\ CompRes(i).rw >= 1
        /\ CompRes(i).x >= 1
        /\ compPlate.w - CompRes(i).rw - CompRes(i).x = CompRes(i).x + 1

\* C22 as stated: the cutout is resized to width floor(W*scale) and height
\* floor(ph*resizedWidth/pw); a plate 1024 wide, a cutout 800x600 and
\* scale 0.55 give 563 x 422.
C22_ResizedCutoutSize ==
    /\ \A i \in CompCalls :
          IsImg(CompRes(i)) =>
              /\ CompRes(i).rw = (compPlate.w * compScale) \div 100
              /\ CompRes(i).rh = (compCutout.h * CompRes(i).rw) \div compCutout.w
    /\ target_width(1024, DefaultScale) = 563
    /\ target_height(600, 563, 800) = 422

\* C28 as stated: for a cutout with positive dimensions, scale in (0,1]
\* and y_bias in [0, 0.5], the rectangle [x, x+rw) x [y, y+rh) the resized
\* cutout is pasted at lies within the plate [0,W) x [0,H).
C28_ProductInsideCanvas ==
    \A i \in CompCalls :
        (/\ IsImg(CompRes(i))
         /\ compCutout.w >= 1 /\ compCutout.h >= 1
         /\ compScale >= 1 /\ compScale <= 100
         /\ CompBias(i) >= 0 /\ CompBias(i) <= 50) =>
            /\ CompRes(i).x >= 0
            /\ CompRes(i).y >= 0
            /\ CompRes(i).x + CompRes(i).rw <= compPlate.w
            /\ CompRes(i).y + CompRes(i).rh <= compPlate.h

\* ---------------------------------------------------- claims: overlay
\* The segments drawn for logical line n, in order
SegmentsOf(n) == SelectSeq(ovDrawn, LAMBDA d : d.line = n)

\* The logical lines whose segments have been drawn
LinesDone == IF ovPc \in {"lines", "done"} THEN 1..(ovLine - 1) ELSE {}

HasBracket(s) == \E i \in 1..Len(s) : s[i] \in {"[", "]"}

\* Empty, or nothing but whitespace and brackets
NothingToDraw(s) == \A i \in 1..Len(s) : s[i] \in {" ", "[", "]"}

\* C13: every wrapped segment that is not a single word measures, in the
\* font its line was shrunk to, at most max_w = floor(W*wrap_ratio).
C13_SegmentsWithinMaxWidth ==
    \A i \in 1..Len(ovDrawn) :
        Len(split(ovDrawn[i].text)) # 1 =>
            textlength(ovDrawn[i].text, ovDrawn[i].font)
                <= 2 * ((ovBase.w * 44) \div 100)

\* A finished call in which a line was wrapped into several segments, one
\* of them of two words or more.
C13_Witness ==
    /\ ovPc = "done"
    /\ \E i, j \in 1..Len(ovDrawn) :
          /\ i # j
          /\ ovDrawn[i].line = ovDrawn[j].line
          /\ Len(split(ovDrawn[i].text)) >= 2
          /\ ovDrawn[i].font.size < 18

\* C14 as stated: when every word of a logical line is wider than max_w on
\* its own, the segments drawn for the line are exactly its words, in
\* order, with no other segment.
C14_OneWordPerSegment ==
    \A n \in LinesDone :
        LET segs == SegmentsOf(n)
            words == split(ovLines[n])
        IN  (\A k \in 1..Len(words) :
                textlength(words[k], segs[1].font) > 2 * ((ovBase.w * 44) \div 100))
            => [k \in 1..Len(segs) |-> segs[k].text] = words

\* C15: when quote, client name and product name hold nothing but
\* whitespace and brackets, the call draws nothing and returns an image of
\* the base's size with the base's pixels.
C15_NothingToDrawIsNoOp ==
    (ovPc \in {"lines", "done"}
     /\ NothingToDraw(ovQuote) /\ NothingToDraw(ovClient) /\ NothingToDraw(ovProduct))
    => /\ ovPc = "done"
       /\ ovDrawn = <<>>
       /\ ovResult.marks = <<>>
       /\ ovResult.w = ovBase.w
       /\ ovResult.h = ovBase.h
       /\ ovResult.px = ovBase.px

\* A returned no-op whose quote and client name were brackets around
\* whitespace.
C15_Witness ==
    /\ ovPc = "done"
    /\ ovResult.marks = <<>>
    /\ Len(ovQuote) >= 3
    /\ HasBracket(ovQuote)
    /\ \E i \in 1..Len(ovQuote) : ovQuote[i] = " "
    /\ ovClient # <<>>

\* C16: no segment drawn holds a '[' or a ']', and no sanitized field
\* holds one or begins or ends with whitespace.
C16_NoBracketsNoOuterWhitespace ==
    /\ \A i \in 1..Len(ovDrawn) : ~HasBracket(ovDrawn[i].text)
    /\ \A f \in 1..Len(ovFields) :
          /\ ~HasBracket(ovFields[f])
          /\ ovFields[f] # <<>> =>
                (ovFields[f][1] # " " /\ ovFields[f][Len(ovFields[f])] # " ")

\* A finished call that drew a quote given as " [a]" or the like: a
\* placeholder in brackets after leading whitespace.
C16_Witness ==
    /\ ovPc = "done"
    /\ ovQuote # <<>>
    /\ ovQuote[1] = " "
    /\ \E i, j \in 1..Len(ovQuote) : i < j /\ ovQuote[i] = "[" /\ ovQuote[j] = "]"
    /\ ovFields[1] # <<>>
    /\ \E i \in 1..Len(ovDrawn) : ovDrawn[i].line = 1

\* The decoration of field f as a logical line: the quote in curly quotes,
\* the attribution after a dash, the product label as it is
Decorated(f, s) ==
    IF f = 1 THEN <<"ldquo">> \o s \o <<"rdquo">>
    ELSE IF f = 2 THEN <<"mdash", " ">> \o s
    ELSE s

\* C23: the logical lines are exactly the non-empty sanitized fields in the
\* order quote, attribution, product label, the quote in curly quotes and
\* the attribution after a dash; three non-empty fields give three lines,
\* and an empty field gives no line and does not reorder the others.
C23_LinesAreNonEmptyFieldsInOrder ==
    ovPc \in {"lines", "done"} =>
        LET present == {f \in 1..3 : ovFields[f] # <<>>}
        IN  /\ ovFields = <<clean(ovQuote), clean(ovClient), clean(ovProduct)>>
            /\ Len(ovLines) = Cardinality(present)
            /\ \A f \in present :
                  ovLines[Cardinality({g \in present : g <= f})]
                      = Decorated(f, ovFields[f])

\* A finished call with a quote, an attribution and a product label, all
\* three non-empty after sanitizing, drawn as three logical lines.
C23_Witness ==
    /\ ovPc = "done"
    /\ Len(ovLines) = 3
    /\ \A f \in 1..3 : ovFields[f] # <<>>
    /\ \A n \in 1..3 : SegmentsOf(n) # <<>>

\* The font size the segments of logical line n were drawn in
SizeOf(n) == SegmentsOf(n)[1].font.size

\* The width, in half pixels, of logical line n unwrapped at font size s
WidthAt(n, s) ==
    textlength(ovLines[n], [truetype |-> ovTruetype, size |-> s])

\* C24: the shrink-to-fit loop of every line ends, at a font size s with
\* 10 <= s <= base = max(floor(min(W,H)*0.04), 18); the unwrapped line
\* measures at most max_w at s, or s = 10; and the size is not decremented
\* once the line fits (one size up, the line did not fit).
C24_ShrinkToFit ==
    \A n \in LinesDone :
        LET m == ((IF ovBase.w < ovBase.h THEN ovBase.w ELSE ovBase.h) * 4) \div 100
            base == IF m > 18 THEN m ELSE 18
            maxW == (ovBase.w * 44) \div 100
        IN  /\ SegmentsOf(n) # <<>>
            /\ \A k \in 1..Len(SegmentsOf(n)) :
                  SegmentsOf(n)[k].font.size = SizeOf(n)
            /\ 10 <= SizeOf(n)
            /\ SizeOf(n) <= base
            /\ WidthAt(n, SizeOf(n)) <= 2 * maxW \/ SizeOf(n) = 10
            /\ SizeOf(n) < base => WidthAt(n, SizeOf(n) + 1) > 2 * maxW

\* A finished call one of whose lines was shrunk below the base size and
\* stopped above the floor, where it fits.
C24_Witness ==
    /\ ovPc = "done"
    /\ \E n \in LinesDone :
          /\ SizeOf(n) > 10
          /\ SizeOf(n) < 18
          /\ WidthAt(n, SizeOf(n)) <= 2 * ((ovBase.w * 44) \div 100)

\* The words of the segments segs[k..], read in segment order
RECURSIVE SegmentWords(_, _)
SegmentWords(segs, k) ==
    IF k > Len(segs) THEN <<>>
    ELSE split(segs[k].text) \o SegmentWords(segs, k + 1)

\* C25 as stated: for every logical line, the words of its wrapped
\* segments read in segment order are the whitespace-separated words of
\* the line in their order, and every wrapped segment is non-empty.
C25_WrapKeepsWordsNoEmptySegment ==
    \A n \in LinesDone :
        /\ SegmentWords(SegmentsOf(n), 1) = split(ovLines[n])
        /\ \A k \in 1..Len(SegmentsOf(n)) : SegmentsOf(n)[k].text # <<>>

\* ------------------------------------------------- claims: transforms
\* The last call, when it was a call of fn
LastIs(fn) == trLast # <<>> /\ trLast[1].fn = fn

CoreTransforms ==
    {"aspect_crop", "add_shadow_layer", "composite_product_on_plate",
     "draw_overlay_text"}

\* C17: after a call of aspect_crop, add_shadow_layer,
\* composite_product_on_plate or draw_overlay_text, every image the caller
\* held before the call, its arguments among them, is as it was, and the
\* image returned is a new object, none of those.
C17_InputsNotMutated ==
    (trLast # <<>> /\ trLast[1].fn \in CoreTransforms) =>
        LET c == trLast[1]
        IN  /\ Len(trHeap) >= Len(c.before)
            /\ SubSeq(trHeap, 1, Len(c.before)) = c.before
            /\ c.tag = "ok" =>
                  /\ c.res = Len(c.before) + 1
                  /\ c.res \in 1..Len(trHeap)
                  /\ \A k \in 1..Len(c.args) : c.res # c.args[k]

\* A composite returned: plate and cutout untouched, the returned copy
\* written by both alpha_composite calls.
C17_Witness ==
    /\ LastIs("composite_product_on_plate")
    /\ trLast[1].tag = "ok"
    /\ trLast[1].args[1] # trLast[1].args[2]
    /\ trHeap[trLast[1].res].writes = 2
    /\ trHeap[trLast[1].args[1]].writes = 0
    /\ trHeap[trLast[1].args[2]].writes = 0

\* C18: try_auto_cutout never raises; it returns the image rembg produced,
\* which takes rembg imported and returning a PNG, or else the very image
\* it was given, untouched.
C18_CutoutNeverRaises ==
    LastIs("try_auto_cutout") =>
        LET c == trLast[1]
        IN  /\ c.tag = "ok"
            /\ \/ c.res = c.args[1] /\ trHeap = c.before
               \/ /\ c.res = Len(c.before) + 1
                  /\ trHeap[c.res].by = "rembg"
                  /\ SubSeq(trHeap, 1, Len(c.before)) = c.before
                  /\ c.params = <<TRUE, "png">>
            /\ (c.params[1] = FALSE \/ c.params[2] # "png") => c.res = c.args[1]

\* rembg imported and raising: the input comes back.
C18_Witness ==
    /\ LastIs("try_auto_cutout")
    /\ trLast[1].params = <<TRUE, "raise">>
    /\ trLast[1].tag = "ok"
    /\ trLast[1].res = trLast[1].args[1]

\* C19: the image add_shadow_layer returns has the width and the height
\* of its foreground, whatever the blur, the offset and the opacity; it
\* does return when the foreground has pixels and the offset is not
\* negative.
C19_ShadowKeepsSize ==
    LastIs("add_shadow_layer") =>
        LET c == trLast[1]
            fore == c.before[c.args[1]]
        IN  /\ c.tag = "ok" =>
                  /\ trHeap[c.res].w = fore.w
                  /\ trHeap[c.res].h = fore.h
            /\ (fore.w >= 1 /\ fore.h >= 1 /\ c.params[2] >= 0 /\ c.params[3] >= 0)
                  => c.tag = "ok"

\* A shadow returned for an offset larger than the foreground, unblurred.
C19_Witness ==
    /\ LastIs("add_shadow_layer")
    /\ trLast[1].tag = "ok"
    /\ trLast[1].params[1] = 0
    /\ trLast[1].params[2] > trLast[1].before[trLast[1].args[1]].w
    /\ trLast[1].params[3] > trLast[1].before[trLast[1].args[1]].h

\* ------------------------------------------------ claims: the session
\* C2: in every state of the per-slot store, each slot's composite is the
\* composite made from the plate the slot currently holds.
C2_CompositeFromStoredPlate ==
    \A i \in 1..Len(results) : results[i].composite.plate = results[i].plate.id

\* A finished run whose edit replaced the slot's plate.
C2_Witness ==
    /\ pc = "idle"
    /\ lastEdit = "ok"
    /\ results[editIdx].plate # before[editIdx][1]
    /\ results[editIdx].composite # before[editIdx][2]

\* C3 as stated: when Generate all has run over the assets, every asset
\* was attempted, whether or not the generation of an earlier one failed.
C3_BatchContinues ==
    (pc = "idle" /\ click = "go" /\ uploaded # None) =>
        Len(attempted) = Len(assets)

\* C5: once a background edit has failed, every slot's plate and composite
\* are what they were when the edit was requested.
C5_FailedEditChangesNothing ==
    lastEdit = "failed" => PlatesAndComposites(results) = before

\* A finished run whose edit obtained the new plate and failed in the
\* re-composite, with another slot in the store.
C5_Witness ==
    /\ pc = "idle"
    /\ lastEdit = "failed"
    /\ newPlate # NoPlate
    /\ Len(results) >= 2

\* C6: the re-composite starts with the new plate in hand and is stored
\* made from it; nothing is offered for export while the run is under way;
\* every image a finished run offers for export is derived from its slot's
\* current composite, which is made from the slot's current plate.
C6_EditCycleOrdered ==
    /\ pc = "edit_comp" => newPlate # NoPlate
    /\ pc = "edit_store" => (newPlate # NoPlate /\ newComp.plate = newPlate.id)
    /\ pc # "idle" => exported = <<>>
    /\ (pc = "idle" /\ ~aborted /\ click # "none") => Len(exported) = Len(results)
    /\ \A i \in 1..Len(exported) :
          /\ exported[i].from = results[i].composite
          /\ exported[i].from.plate = results[i].plate.id

\* A finished run that replaced a plate and offers the slots for export.
C6_Witness ==
    /\ pc = "idle"
    /\ lastEdit = "ok"
    /\ Len(exported) >= 2
    /\ results[editIdx].plate # before[editIdx][1]
    /\ exported[editIdx].from.plate = newPlate.id

\* ------------------------------------------------ claims: Generate All
\* C4 as stated: an asset the service returned no image for is reported
\* as a failure and is neither stored nor counted as generated; every
\* stored entry has an image.
C4_NoImageNeverStored ==
    /\ \A i \in 1..Len(generated_assets) : generated_assets[i].image # 0
    /\ uiSuccess >= 0 =>
          uiSuccess = Cardinality({i \in 1..Len(uiResults) : uiResults[i].image # 0})

\* C29 as stated: while the session's product image is None, pressing
\* Generate All only warns: the generation loop is not entered, no asset
\* generation is invoked and generated_assets stays as it was.
C29_NoGenerationWithoutProduct ==
    product_img = None =>
        /\ uiPc = "idle"
        /\ uiCalls = 0
        /\ uiResults = <<>>
        /\ generated_assets = <<>>

\* ------------------------------------------------------- claims: chat
\* C30 as stated: after any sequence of Sends and cache clears the chat
\* history has even length and consists of consecutive pairs of a user
\* request and an assistant reply with an image, and a failed or rejected
\* Send appends nothing.
C30_ChatHistoryWellFormed ==
    /\ Len(chat_history) % 2 = 0
    /\ \A k \in 1..Len(chat_history) :
          IF k % 2 = 1
          THEN chat_history[k].role = "user"
          ELSE /\ chat_history[k].role = "assistant"
               /\ chat_history[k].image # 0
    /\ chatLast.kind \in {"error", "warning"} => chat_history = chatLast.before

====
